---- MODULE Spec2Model ----
(***************************************************************************)
(* bVault-js: password based authenticated encryption (encrypt / decrypt)  *)
(* and the encrypted localStorage / sessionStorage wrapper built on it.    *)
(*                                                                         *)
(* The cryptographic primitives are modelled symbolically: a derived key   *)
(* is the term (password, salt, parameters), a sealed ciphertext is the    *)
(* term (key, nonce, plaintext bytes), and the output of the secure random *)
(* source is a term that is never produced twice.  Events of negligible    *)
(* probability (key or tag collisions, repeated random output) are         *)
(* excluded by this representation.                                        *)
(***************************************************************************)
EXTENDS Integers, Sequences, FiniteSets, TLC

VARIABLES
    session,    \* the process-wide StorageSession
    store,      \* the two storage media: instance -> raw key -> entry
    rng,        \* number of outputs consumed from the secure random source
    last,       \* the last call and what it returned
    enc,        \* the results of the caller's direct encrypt calls
    pending,    \* the setItem calls in flight: call -> how far it has got
    written     \* history: per instance and key, the setItem calls since the
                \* entry was last removed (their number, the last value and
                \* the session password of the last one)

vars == <<session, store, rng, last, enc, written, pending>>

-----------------------------------------------------------------------------
(* Bounds of the model *)

\* number of encrypt calls (direct or through setItem) in one run
MaxEncrypts == 2
\* number of bit positions a caller may flip in a value handed to decrypt
MaxFlipBit == 1

\* how many entries of the media are changed behind the store's back at a time
MaxTampered == 1

-----------------------------------------------------------------------------
(* Program constants *)

SaltLength == 16
IvLength == 12
TagLength == 16
Iterations == 100000
KeyLengthBits == 256
Prefix == "bvault_enc_"

-----------------------------------------------------------------------------
(* Input domains *)

Passwords == {"pw1", "pw2"}
Plaintexts == {"", "hello"}

-----------------------------------------------------------------------------
(* Errors and results *)

Ok(v) == [ok |-> TRUE, value |-> v]
\* the result of a call that returns nothing, and JavaScript's null
OkVoid == [ok |-> TRUE, void |-> TRUE]
OkNull == [ok |-> TRUE, null |-> TRUE]
Err(kind) == [ok |-> FALSE, error |-> kind]
EncryptionError == Err("EncryptionError")
DecryptionError == Err("DecryptionError")
\* a DecryptionError whose cause property holds the original error (its
\* message, of which the documentation gives no text, is not represented)
DecryptionErrorFrom(cause) ==
    [ok |-> FALSE, error |-> "DecryptionError", cause |-> cause]
\* error instanceof DecryptionError
IsDecryptionError(res) == ~res.ok /\ res.error = "DecryptionError"
InitializationError == Err("InitializationError")

-----------------------------------------------------------------------------
(* Byte sequences, as terms *)

\* the n-th output of the secure random source, len bytes long
RandomBytes(len, n) == [kind |-> "random", len |-> len, id |-> n]

\* UTF-8 encoding of a text, and its decoding (fails on bytes that are not
\* the encoding of a text)
Utf8Encode(s) == [kind |-> "utf8", text |-> s]
NotText == [kind |-> "notText"]
Utf8Decode(b) == IF b.kind = "utf8" THEN [kind |-> "string", text |-> b.text] ELSE NotText

\* a byte sequence that differs from b in bit number bit (same length)
FlipBit(b, bit) == [kind |-> "flipped", of |-> b, bit |-> bit]

RECURSIVE ByteLength(_)
ByteLength(b) ==
    CASE b.kind = "random" -> b.len
      [] b.kind = "utf8" -> Len(b.text)
      [] b.kind = "sealed" -> ByteLength(b.body) + TagLength
      [] b.kind = "flipped" -> ByteLength(b.of)
      [] OTHER -> 0

-----------------------------------------------------------------------------
(* Codec: base64 text of a byte sequence *)

Malformed == [kind |-> "malformed"]
Base64Encode(b) == [kind |-> "b64", bytes |-> b]
\* a text that is not base64 (the documentation's 'corrupted-data')
CorruptedText == [kind |-> "text", text |-> "corrupted-data"]
Base64Decode(t) == IF t.kind = "b64" THEN t.bytes ELSE Malformed

-----------------------------------------------------------------------------
(* KeyDerivation: PBKDF2 / SHA-256 *)

\* a derivation that does not depend on the password
DeriveKeySaltOnly(password, salt) ==
    [kind |-> "key", password |-> "", salt |-> salt,
     iterations |-> Iterations, bits |-> KeyLengthBits]

DeriveKey(password, salt) ==
    [kind |-> "key", password |-> password, salt |-> salt,
     iterations |-> Iterations, bits |-> KeyLengthBits]

-----------------------------------------------------------------------------
(* AEADCipher: AES-GCM *)

AuthFailure == [kind |-> "authFailure"]

Seal(key, nonce, plain) ==
    [kind |-> "sealed", key |-> key, nonce |-> nonce, body |-> plain]

\* a cipher whose tag does not cover the nonce
OpenNonceUnchecked(key, nonce, ct) ==
    IF ct.kind = "sealed" /\ ct.key = key
    THEN ct.body
    ELSE AuthFailure

Open(key, nonce, ct) ==
    IF ct.kind = "sealed" /\ ct.key = key /\ ct.nonce = nonce
    THEN ct.body
    ELSE AuthFailure

-----------------------------------------------------------------------------
(* CryptoFacade *)

\* an encrypt that returns the salt and the iv under each other's name
EncryptSwapped(data, password, n) ==
    LET salt == RandomBytes(SaltLength, n + 1)
        key == DeriveKey(password, salt)
        iv == RandomBytes(IvLength, n + 2)
        ct == Seal(key, iv, Utf8Encode(data))
    IN  [encryptedData |-> Base64Encode(ct),
         iv |-> Base64Encode(salt),
         salt |-> Base64Encode(iv)]

\* an encrypt that uses one fixed IV for every call
EncryptFixedIv(data, password, n) ==
    LET salt == RandomBytes(SaltLength, n + 1)
        key == DeriveKey(password, salt)
        iv == RandomBytes(IvLength, 0)
        ct == Seal(key, iv, Utf8Encode(data))
    IN  [encryptedData |-> Base64Encode(ct),
         iv |-> Base64Encode(iv),
         salt |-> Base64Encode(salt)]

\* encrypt(data, password), drawing the salt and then the IV from the random
\* source, of which n outputs have been consumed
Encrypt(data, password, n) ==
    LET salt == RandomBytes(SaltLength, n + 1)
        key == DeriveKey(password, salt)
        iv == RandomBytes(IvLength, n + 2)
        ct == Seal(key, iv, Utf8Encode(data))
    IN  [encryptedData |-> Base64Encode(ct),
         iv |-> Base64Encode(iv),
         salt |-> Base64Encode(salt)]

\* decrypt(encryptedData, password, iv, salt); a failure carries its cause
Decrypt(encryptedData, password, iv, salt) ==
    LET ctB == Base64Decode(encryptedData)
        ivB == Base64Decode(iv)
        saltB == Base64Decode(salt)
    IN  IF Malformed \in {ctB, ivB, saltB}
        THEN DecryptionErrorFrom(Malformed)
        ELSE IF ByteLength(ivB) # IvLength \/ ByteLength(saltB) # SaltLength
        THEN DecryptionError
        ELSE LET plain == Open(DeriveKey(password, saltB), ivB, ctB)
             IN  IF plain = AuthFailure
                 THEN DecryptionErrorFrom(AuthFailure)
                 ELSE LET text == Utf8Decode(plain)
                      IN  IF text = NotText
                          THEN DecryptionErrorFrom(NotText)
                          ELSE Ok(text.text)

-----------------------------------------------------------------------------
(* Direct use of the facade: the caller keeps the results of its encrypt   *)
(* calls (enc) and hands decrypt any combination of their fields, possibly *)
(* altered.                                                                *)

EncResults == {enc[j].result : j \in 1..Len(enc)}

\* the texts a caller can hand to decrypt: fields of earlier results, the
\* same with one bit flipped, the empty text and a text that is not base64
CallerTexts ==
    LET fields == UNION {{r.encryptedData, r.iv, r.salt} : r \in EncResults}
    IN  fields
        \cup {Base64Encode(FlipBit(Base64Decode(t), bit)) :
                 t \in fields, bit \in 1..MaxFlipBit}
        \cup {Base64Encode(Utf8Encode("")), CorruptedText}

EncryptCall(data, password) ==
    /\ rng + 2 <= 2 * MaxEncrypts
    /\ enc' = Append(enc, [data |-> data, password |-> password,
                           result |-> Encrypt(data, password, rng)])
    /\ rng' = rng + 2
    /\ last' = [op |-> "encrypt", res |-> OkVoid]
    /\ UNCHANGED <<session, store, written, pending>>

DecryptCall(encryptedData, password, iv, salt) ==
    /\ last' = [op |-> "decrypt", encryptedData |-> encryptedData,
                password |-> password, iv |-> iv, salt |-> salt,
                res |-> Decrypt(encryptedData, password, iv, salt)]
    /\ UNCHANGED <<session, store, rng, enc, written, pending>>

-----------------------------------------------------------------------------
(* SecureStore: process-wide session and the two storage media *)

Instances == {"local", "session"}
Keys == {"a", "b"}
\* a key of the same media that other code of the page uses (un-prefixed)
ForeignKeys == {"a"}
RawKeys == {Prefix \o k : k \in Keys} \cup ForeignKeys

StartsWith(s, p) == Len(s) >= Len(p) /\ SubSeq(s, 1, Len(p)) = p

\* values a caller stores
JsString(s) == [type |-> "string", s |-> s]
JsNumber(n) == [type |-> "number", n |-> n]
JsNull == [type |-> "null"]
Values == {JsString("hi"), JsNumber(7)}

JsonStringify(v) ==
    CASE v.type = "string" -> "\"" \o v.s \o "\""
      [] v.type = "number" -> ToString(v.n)
      [] OTHER -> "null"

JsonParse(t) ==
    IF t = "null" THEN JsNull
    ELSE IF Len(t) >= 2 /\ SubSeq(t, 1, 1) = "\"" /\ SubSeq(t, Len(t), Len(t)) = "\""
    THEN JsString(SubSeq(t, 2, Len(t) - 1))
    ELSE IF \E n \in 0..9 : ToString(n) = t
    THEN JsNumber(CHOOSE n \in 0..9 : ToString(n) = t)
    ELSE [type |-> "syntaxError"]

\* an entry of a storage medium: absent, or a text
Absent == [kind |-> "absent"]
PlainText(s) == [kind |-> "text", text |-> s]
\* the stored record { encryptedData, iv, salt } as one text, and back
SerializeEnvelope(r) ==
    [kind |-> "envelope", encryptedData |-> r.encryptedData,
     iv |-> r.iv, salt |-> r.salt]
ParseEnvelope(t) ==
    [encryptedData |-> t.encryptedData, iv |-> t.iv, salt |-> t.salt]

NotWritten == [writes |-> 0]

\* the setItem calls that are followed step by step, and where a call is
Calls == {"c1", "c2"}
Idle == [pc |-> "idle"]

Uninitialized == [initialized |-> FALSE]
Initialized(password) == [initialized |-> TRUE, password |-> password]

IsSecureStorageInitialized == session.initialized

Init ==
    /\ session = Uninitialized
    /\ store = [i \in Instances |-> [rk \in RawKeys |-> Absent]]
    /\ rng = 0
    /\ last = [op |-> "none"]
    /\ enc = <<>>
    /\ written = [i \in Instances |-> [k \in Keys |-> NotWritten]]
    /\ pending = [c \in Calls |-> Idle]

-----------------------------------------------------------------------------
(* Session lifecycle *)

\* an initialization that reports success without recording anything
InitializeForgetsState(password) ==
    /\ session' = session
    /\ last' = [op |-> "initialize", password |-> password,
                again |-> session.initialized, res |-> OkVoid]
    /\ UNCHANGED <<store, rng, enc, written, pending>>

\* an initialization that refuses every call made while initialized
InitializeRejectsSecond(password) ==
    /\ \/ /\ ~session.initialized
          /\ session' = Initialized(password)
          /\ last' = [op |-> "initialize", password |-> password,
                      again |-> FALSE, res |-> OkVoid]
       \/ /\ session.initialized
          /\ session' = session
          /\ last' = [op |-> "initialize", password |-> password,
                      again |-> TRUE, res |-> InitializationError]
    /\ UNCHANGED <<store, rng, enc, written, pending>>

\* initializeSecureStorage(password); again tells whether the call was made
\* while the store was initialized.  What a call with another password does
\* while the store is initialized is left open by the documentation: it
\* keeps the first password, replaces it, or is rejected.
InitializeSecureStorage(password) ==
    /\ \/ /\ ~session.initialized
          /\ session' = Initialized(password)
          /\ last' = [op |-> "initialize", password |-> password,
                      again |-> FALSE, res |-> OkVoid]
       \/ /\ session.initialized
          /\ session.password = password
          /\ session' = session
          /\ last' = [op |-> "initialize", password |-> password,
                      again |-> TRUE, res |-> OkVoid]
       \/ /\ session.initialized
          /\ session.password # password
          /\ \/ /\ session' = session
                /\ last' = [op |-> "initialize", password |-> password,
                            again |-> TRUE, res |-> OkVoid]
             \/ /\ session' = Initialized(password)
                /\ last' = [op |-> "initialize", password |-> password,
                            again |-> TRUE, res |-> OkVoid]
             \/ /\ session' = session
                /\ last' = [op |-> "initialize", password |-> password,
                            again |-> TRUE, res |-> InitializationError]
    /\ UNCHANGED <<store, rng, enc, written, pending>>

Teardown ==
    /\ session' = Uninitialized
    /\ last' = [op |-> "teardown", res |-> OkVoid]
    /\ UNCHANGED <<store, rng, enc, written, pending>>

\* a query that fails, like the store operations, before initialization
IsSecureStorageInitializedGated ==
    /\ last' = [op |-> "isInitialized",
                res |-> IF IsSecureStorageInitialized
                        THEN Ok(TRUE) ELSE InitializationError]
    /\ UNCHANGED <<session, store, rng, enc, written, pending>>

IsSecureStorageInitializedCall ==
    /\ last' = [op |-> "isInitialized", res |-> Ok(IsSecureStorageInitialized)]
    /\ UNCHANGED <<session, store, rng, enc, written, pending>>

-----------------------------------------------------------------------------
(* Store operations of instance i *)

\* a setItem that does not replace an entry that is already there
SetItemKeepsFirst(i, k, v) ==
    /\ \/ /\ ~IsSecureStorageInitialized
          /\ last' = [op |-> "setItem", inst |-> i, key |-> k, value |-> v,
                      res |-> InitializationError]
          /\ UNCHANGED <<store, rng, written>>
       \/ /\ IsSecureStorageInitialized
          /\ rng + 2 <= 2 * MaxEncrypts
          /\ LET r == Encrypt(JsonStringify(v), session.password, rng)
             IN  store' = [store EXCEPT ![i][Prefix \o k] =
                             IF @ = Absent THEN SerializeEnvelope(r) ELSE @]
          /\ rng' = rng + 2
          /\ written' = [written EXCEPT ![i][k] =
                            [writes |-> @.writes + 1, value |-> v,
                             password |-> session.password]]
          /\ last' = [op |-> "setItem", inst |-> i, key |-> k, value |-> v,
                      res |-> OkVoid]
    /\ UNCHANGED <<session, enc, pending>>

\* a setItem that stores the serialized value itself
SetItemPlain(i, k, v) ==
    /\ \/ /\ ~IsSecureStorageInitialized
          /\ last' = [op |-> "setItem", inst |-> i, key |-> k, value |-> v,
                      res |-> InitializationError]
          /\ UNCHANGED <<store, rng, written>>
       \/ /\ IsSecureStorageInitialized
          /\ rng + 2 <= 2 * MaxEncrypts
          /\ store' = [store EXCEPT ![i][Prefix \o k] = PlainText(JsonStringify(v))]
          /\ rng' = rng + 2
          /\ written' = [written EXCEPT ![i][k] =
                            [writes |-> @.writes + 1, value |-> v,
                             password |-> session.password]]
          /\ last' = [op |-> "setItem", inst |-> i, key |-> k, value |-> v,
                      res |-> OkVoid]
    /\ UNCHANGED <<session, enc, pending>>

\* a setItem that writes the envelope to both media
SetItemBothMedia(i, k, v) ==
    /\ \/ /\ ~IsSecureStorageInitialized
          /\ last' = [op |-> "setItem", inst |-> i, key |-> k, value |-> v,
                      res |-> InitializationError]
          /\ UNCHANGED <<store, rng, written>>
       \/ /\ IsSecureStorageInitialized
          /\ rng + 2 <= 2 * MaxEncrypts
          /\ LET r == Encrypt(JsonStringify(v), session.password, rng)
             IN  store' = [j \in Instances |->
                             [store[j] EXCEPT ![Prefix \o k] = SerializeEnvelope(r)]]
          /\ rng' = rng + 2
          /\ written' = [written EXCEPT ![i][k] =
                            [writes |-> @.writes + 1, value |-> v,
                             password |-> session.password]]
          /\ last' = [op |-> "setItem", inst |-> i, key |-> k, value |-> v,
                      res |-> OkVoid]
    /\ UNCHANGED <<session, enc, pending>>

SetItem(i, k, v) ==
    /\ \/ /\ ~IsSecureStorageInitialized
          /\ last' = [op |-> "setItem", inst |-> i, key |-> k, value |-> v,
                      res |-> InitializationError]
          /\ UNCHANGED <<store, rng, written>>
       \/ /\ IsSecureStorageInitialized
          /\ rng + 2 <= 2 * MaxEncrypts
          /\ LET r == Encrypt(JsonStringify(v), session.password, rng)
             IN  store' = [store EXCEPT ![i][Prefix \o k] = SerializeEnvelope(r)]
          /\ rng' = rng + 2
          /\ written' = [written EXCEPT ![i][k] =
                            [writes |-> @.writes + 1, value |-> v,
                             password |-> session.password]]
          /\ last' = [op |-> "setItem", inst |-> i, key |-> k, value |-> v,
                      res |-> OkVoid]
    /\ UNCHANGED <<session, enc, pending>>

\* a getItem that hands a missing entry to decrypt
GetItemResultAbsentFails(i, k) ==
    IF ~IsSecureStorageInitialized
    THEN InitializationError
    ELSE LET entry == store[i][Prefix \o k]
         IN  IF entry = Absent
             THEN DecryptionError
             ELSE LET env == ParseEnvelope(entry)
                  IN  Decrypt(env.encryptedData, session.password, env.iv, env.salt)

\* a getItem that answers null when the entry cannot be decrypted
GetItemResultSwallows(i, k) ==
    IF ~IsSecureStorageInitialized
    THEN InitializationError
    ELSE LET entry == store[i][Prefix \o k]
         IN  IF entry = Absent
             THEN OkNull
             ELSE LET env == ParseEnvelope(entry)
                      res == Decrypt(env.encryptedData, session.password,
                                     env.iv, env.salt)
                  IN  IF res.ok THEN res ELSE OkNull

\* what getItem(k) of instance i returns in the current state
GetItemResult(i, k) ==
    IF ~IsSecureStorageInitialized
    THEN InitializationError
    ELSE LET entry == store[i][Prefix \o k]
         IN  IF entry = Absent
             THEN OkNull
             ELSE LET env == ParseEnvelope(entry)
                  IN  Decrypt(env.encryptedData, session.password, env.iv, env.salt)

\* a getItem that deletes an entry it cannot decrypt
GetItemPurges(i, k) ==
    /\ last' = [op |-> "getItem", inst |-> i, key |-> k, res |-> GetItemResult(i, k)]
    /\ store' = IF IsDecryptionError(GetItemResult(i, k))
                THEN [store EXCEPT ![i][Prefix \o k] = Absent]
                ELSE store
    /\ UNCHANGED <<session, rng, enc, written, pending>>

GetItem(i, k) ==
    /\ last' = [op |-> "getItem", inst |-> i, key |-> k, res |-> GetItemResult(i, k)]
    /\ UNCHANGED <<session, store, rng, enc, written, pending>>

\* a removeItem that does not look at the session
RemoveItemUngated(i, k) ==
    /\ store' = [store EXCEPT ![i][Prefix \o k] = Absent]
    /\ written' = [written EXCEPT ![i][k] = NotWritten]
    /\ last' = [op |-> "removeItem", inst |-> i, key |-> k, res |-> OkVoid]
    /\ UNCHANGED <<session, rng, enc, pending>>

\* a removeItem that always deletes from the durable medium
RemoveItemWrongMedium(i, k) ==
    /\ \/ /\ ~IsSecureStorageInitialized
          /\ last' = [op |-> "removeItem", inst |-> i, key |-> k,
                      res |-> InitializationError]
          /\ UNCHANGED <<store, written>>
       \/ /\ IsSecureStorageInitialized
          /\ store' = [store EXCEPT !["local"][Prefix \o k] = Absent]
          /\ written' = [written EXCEPT ![i][k] = NotWritten]
          /\ last' = [op |-> "removeItem", inst |-> i, key |-> k, res |-> OkVoid]
    /\ UNCHANGED <<session, rng, enc, pending>>

RemoveItem(i, k) ==
    /\ \/ /\ ~IsSecureStorageInitialized
          /\ last' = [op |-> "removeItem", inst |-> i, key |-> k,
                      res |-> InitializationError]
          /\ UNCHANGED <<store, written>>
       \/ /\ IsSecureStorageInitialized
          /\ store' = [store EXCEPT ![i][Prefix \o k] = Absent]
          /\ written' = [written EXCEPT ![i][k] = NotWritten]
          /\ last' = [op |-> "removeItem", inst |-> i, key |-> k, res |-> OkVoid]
    /\ UNCHANGED <<session, rng, enc, pending>>

\* a clear that empties the whole medium
ClearWholeMedium(i) ==
    /\ \/ /\ ~IsSecureStorageInitialized
          /\ last' = [op |-> "clear", inst |-> i, res |-> InitializationError]
          /\ UNCHANGED <<store, written>>
       \/ /\ IsSecureStorageInitialized
          /\ store' = [store EXCEPT ![i] = [rk \in RawKeys |-> Absent]]
          /\ written' = [written EXCEPT ![i] = [k \in Keys |-> NotWritten]]
          /\ last' = [op |-> "clear", inst |-> i, res |-> OkVoid]
    /\ UNCHANGED <<session, rng, enc, pending>>

\* a clear that also ends the session
ClearEndsSession(i) ==
    /\ \/ /\ ~IsSecureStorageInitialized
          /\ last' = [op |-> "clear", inst |-> i, res |-> InitializationError]
          /\ UNCHANGED <<store, written, session>>
       \/ /\ IsSecureStorageInitialized
          /\ store' = [store EXCEPT ![i] =
                          [rk \in RawKeys |->
                              IF StartsWith(rk, Prefix) THEN Absent ELSE store[i][rk]]]
          /\ written' = [written EXCEPT ![i] = [k \in Keys |-> NotWritten]]
          /\ session' = Uninitialized
          /\ last' = [op |-> "clear", inst |-> i, res |-> OkVoid]
    /\ UNCHANGED <<rng, enc, pending>>

Clear(i) ==
    /\ \/ /\ ~IsSecureStorageInitialized
          /\ last' = [op |-> "clear", inst |-> i, res |-> InitializationError]
          /\ UNCHANGED <<store, written>>
       \/ /\ IsSecureStorageInitialized
          /\ store' = [store EXCEPT ![i] =
                          [rk \in RawKeys |->
                              IF StartsWith(rk, Prefix) THEN Absent ELSE store[i][rk]]]
          /\ written' = [written EXCEPT ![i] = [k \in Keys |-> NotWritten]]
          /\ last' = [op |-> "clear", inst |-> i, res |-> OkVoid]
    /\ UNCHANGED <<session, rng, enc, pending>>

-----------------------------------------------------------------------------
(* setItem step by step: the call checks the session and awaits encrypt,  *)
(* and when encrypt has resolved it assigns the serialized envelope to    *)
(* the key.  Other calls run while encrypt is awaited.                    *)

Finished == {c \in Calls : pending[c].pc = "done"}

\* the call: the session check, and encrypt under the session password.
\* encrypt fails when the cryptographic capability of the host fails.
SetItemBegin(c, i, k, v) ==
    /\ pending[c] = Idle
    /\ \/ /\ ~IsSecureStorageInitialized
          /\ pending' = [pending EXCEPT ![c] =
                            [pc |-> "failed", inst |-> i, key |-> k, value |-> v,
                             res |-> InitializationError]]
          /\ last' = [op |-> "setItem", inst |-> i, key |-> k, value |-> v,
                      res |-> InitializationError]
          /\ UNCHANGED rng
       \/ /\ IsSecureStorageInitialized
          /\ pending' = [pending EXCEPT ![c] =
                            [pc |-> "failed", inst |-> i, key |-> k, value |-> v,
                             res |-> EncryptionError]]
          /\ last' = [op |-> "setItem", inst |-> i, key |-> k, value |-> v,
                      res |-> EncryptionError]
          /\ UNCHANGED rng
       \/ /\ IsSecureStorageInitialized
          /\ rng + 2 <= 2 * MaxEncrypts
          /\ LET r == Encrypt(JsonStringify(v), session.password, rng)
             IN  pending' = [pending EXCEPT ![c] =
                                [pc |-> "writing", inst |-> i, key |-> k,
                                 value |-> v, password |-> session.password,
                                 envelope |-> SerializeEnvelope(r)]]
          /\ rng' = rng + 2
          /\ last' = [op |-> "setItemBegin", inst |-> i, key |-> k, value |-> v]
    /\ UNCHANGED <<session, store, enc, written>>

\* a write that replaces the ciphertext and keeps the nonce and salt of an
\* entry that is already there
SetItemWriteMerges(c) ==
    /\ pending[c].pc = "writing"
    /\ LET q == pending[c]
       IN  /\ store' = [store EXCEPT ![q.inst][Prefix \o q.key] =
                           IF @ = Absent
                           THEN q.envelope
                           ELSE [@ EXCEPT !.encryptedData = q.envelope.encryptedData]]
           /\ written' = [written EXCEPT ![q.inst][q.key] =
                             [writes |-> @.writes + 1, value |-> q.value,
                              password |-> q.password]]
           /\ pending' = [pending EXCEPT ![c] =
                             [pc |-> "done", inst |-> q.inst, key |-> q.key,
                              value |-> q.value, password |-> q.password,
                              envelope |-> q.envelope,
                              order |-> Cardinality(Finished) + 1]]
           /\ last' = [op |-> "setItem", inst |-> q.inst, key |-> q.key,
                       value |-> q.value, res |-> OkVoid]
    /\ UNCHANGED <<session, rng, enc>>

\* the write: one assignment of the serialized envelope to the key
SetItemWrite(c) ==
    /\ pending[c].pc = "writing"
    /\ LET q == pending[c]
       IN  /\ store' = [store EXCEPT ![q.inst][Prefix \o q.key] = q.envelope]
           /\ written' = [written EXCEPT ![q.inst][q.key] =
                             [writes |-> @.writes + 1, value |-> q.value,
                              password |-> q.password]]
           /\ pending' = [pending EXCEPT ![c] =
                             [pc |-> "done", inst |-> q.inst, key |-> q.key,
                              value |-> q.value, password |-> q.password,
                              envelope |-> q.envelope,
                              order |-> Cardinality(Finished) + 1]]
           /\ last' = [op |-> "setItem", inst |-> q.inst, key |-> q.key,
                       value |-> q.value, res |-> OkVoid]
    /\ UNCHANGED <<session, rng, enc>>

\* an abandoned call that has already put the ciphertext into the entry
SetItemInterruptedHalfWritten(c) ==
    /\ pending[c].pc = "writing"
    /\ store' = [store EXCEPT ![pending[c].inst][Prefix \o pending[c].key] =
                    IF @ = Absent
                    THEN [pending[c].envelope EXCEPT !.iv = CorruptedText]
                    ELSE [@ EXCEPT !.encryptedData =
                                      pending[c].envelope.encryptedData]]
    /\ pending' = [pending EXCEPT ![c] =
                      [pc |-> "interrupted", inst |-> pending[c].inst,
                       key |-> pending[c].key, value |-> pending[c].value]]
    /\ last' = [op |-> "setItemInterrupted", inst |-> pending[c].inst,
                key |-> pending[c].key, value |-> pending[c].value]
    /\ UNCHANGED <<session, rng, enc, written>>

\* the call is abandoned while encrypt is awaited: the write never happens
SetItemInterrupted(c) ==
    /\ pending[c].pc = "writing"
    /\ pending' = [pending EXCEPT ![c] =
                      [pc |-> "interrupted", inst |-> pending[c].inst,
                       key |-> pending[c].key, value |-> pending[c].value]]
    /\ last' = [op |-> "setItemInterrupted", inst |-> pending[c].inst,
                key |-> pending[c].key, value |-> pending[c].value]
    /\ UNCHANGED <<session, store, rng, enc, written>>

-----------------------------------------------------------------------------
(* Other code of the page using the same media directly *)

ForeignTexts == {"dark"}

ForeignSetItem(i, fk, t) ==
    /\ store' = [store EXCEPT ![i][fk] = PlainText(t)]
    /\ last' = [op |-> "foreignSetItem", inst |-> i, key |-> fk]
    /\ UNCHANGED <<session, rng, enc, written, pending>>

ForeignRemoveItem(i, fk) ==
    /\ store[i][fk] # Absent
    /\ store' = [store EXCEPT ![i][fk] = Absent]
    /\ last' = [op |-> "foreignRemoveItem", inst |-> i, key |-> fk]
    /\ UNCHANGED <<session, rng, enc, written, pending>>

\* the entry of key k was changed behind the store's back: one of the three
\* texts of the envelope, so far as setItem wrote it, has a bit flipped or is
\* replaced by a text that is not base64
AsWritten(entry) ==
    \A f \in {"encryptedData", "iv", "salt"} :
        entry[f].kind = "b64" /\ entry[f].bytes.kind # "flipped"

TamperedTexts(t) ==
    {Base64Encode(FlipBit(Base64Decode(t), bit)) : bit \in 1..MaxFlipBit}
    \cup {CorruptedText}

TamperedEntries ==
    {ik \in Instances \X Keys :
        /\ store[ik[1]][Prefix \o ik[2]] # Absent
        /\ ~AsWritten(store[ik[1]][Prefix \o ik[2]])}

TamperEntry(i, k, f) ==
    /\ Cardinality(TamperedEntries) < MaxTampered
    /\ store[i][Prefix \o k] # Absent
    /\ AsWritten(store[i][Prefix \o k])
    /\ \E t \in TamperedTexts(store[i][Prefix \o k][f]) :
          store' = [store EXCEPT ![i][Prefix \o k][f] = t]
    /\ last' = [op |-> "tamperEntry", inst |-> i, key |-> k]
    /\ UNCHANGED <<session, rng, enc, written, pending>>

-----------------------------------------------------------------------------
(* Specifications *)

Next ==
    \/ \E w \in Passwords : InitializeSecureStorage(w)
    \/ Teardown
    \/ IsSecureStorageInitializedCall
    \/ \E i \in Instances, k \in Keys, v \in Values : SetItem(i, k, v)
    \/ \E i \in Instances, k \in Keys : GetItem(i, k)
    \/ \E i \in Instances, k \in Keys : RemoveItem(i, k)
    \/ \E i \in Instances : Clear(i)
    \/ \E i \in Instances, fk \in ForeignKeys, t \in ForeignTexts :
          ForeignSetItem(i, fk, t)
    \/ \E i \in Instances, fk \in ForeignKeys : ForeignRemoveItem(i, fk)

Spec == Init /\ [][Next]_vars

\* the caller decrypts one of its results, with any password and with at most
\* one of the three texts replaced by another text it can produce
NextCrypto ==
    \/ \E data \in Plaintexts, w \in Passwords : EncryptCall(data, w)
    \/ \E r \in EncResults, w \in Passwords,
          f \in {"none", "encryptedData", "iv", "salt"}, t \in CallerTexts :
          DecryptCall(IF f = "encryptedData" THEN t ELSE r.encryptedData,
                      w,
                      IF f = "iv" THEN t ELSE r.iv,
                      IF f = "salt" THEN t ELSE r.salt)

SpecCrypto == Init /\ [][NextCrypto]_vars

\* the operations that encrypt, directly or for the store, with the session
\* lifecycle and the removal of entries
NextEncrypts ==
    \/ \E w \in Passwords : InitializeSecureStorage(w)
    \/ Teardown
    \/ \E i \in Instances, k \in Keys, v \in Values : SetItem(i, k, v)
    \/ \E i \in Instances, k \in Keys : RemoveItem(i, k)
    \/ \E data \in Plaintexts, w \in Passwords : EncryptCall(data, w)

SpecEncrypts == Init /\ [][NextEncrypts]_vars

\* writing and reading entries across sessions, with entries that are
\* changed behind the store's back
\* the keys whose entries are written, read and changed under SpecTamper
TamperKeys == {"a"}

NextTamper ==
    \/ \E w \in Passwords : InitializeSecureStorage(w)
    \/ Teardown
    \/ \E i \in Instances, k \in TamperKeys, v \in Values : SetItem(i, k, v)
    \/ \E i \in Instances, k \in TamperKeys : GetItem(i, k)
    \/ \E i \in Instances, k \in TamperKeys, f \in {"encryptedData", "iv", "salt"} :
          TamperEntry(i, k, f)

SpecTamper == Init /\ [][NextTamper]_vars

\* setItem calls that overlap, fail or are abandoned
NextInFlight ==
    \/ \E w \in Passwords : InitializeSecureStorage(w)
    \/ Teardown
    \/ \E c \in Calls, i \in Instances, k \in Keys, v \in Values :
          SetItemBegin(c, i, k, v)
    \/ \E c \in Calls : SetItemWrite(c)
    \/ \E c \in Calls : SetItemInterrupted(c)
    \/ \E i \in Instances, k \in Keys : GetItem(i, k)

SpecInFlight == Init /\ [][NextInFlight]_vars

-----------------------------------------------------------------------------
(* Properties of the facade, checked under SpecCrypto *)

\* the last call was decrypt, on the texts of the j-th result except that the
\* fields in changed were replaced by other texts
DecryptOf(j, changed) ==
    /\ last.op = "decrypt"
    /\ (last.encryptedData # enc[j].result.encryptedData) <=> ("encryptedData" \in changed)
    /\ (last.iv # enc[j].result.iv) <=> ("iv" \in changed)
    /\ (last.salt # enc[j].result.salt) <=> ("salt" \in changed)

\* C1: decrypting the three texts returned by encrypt(P, W), unchanged and
\* with the same password W, returns exactly P.
C1_RoundTrip ==
    \A j \in 1..Len(enc) :
        (DecryptOf(j, {}) /\ last.password = enc[j].password)
            => last.res = Ok(enc[j].data)

C1_Witness ==
    \E j \in 1..Len(enc) :
        /\ DecryptOf(j, {})
        /\ last.password = enc[j].password
        /\ enc[j].data = "hello"
        /\ last.res = Ok("hello")

\* C2: decrypting the three texts returned by encrypt(P, W) with a password
\* other than W fails with DecryptionError; no plaintext is returned.
C2_WrongPassword ==
    \A j \in 1..Len(enc) :
        (DecryptOf(j, {}) /\ last.password # enc[j].password)
            => IsDecryptionError(last.res)

C2_Witness ==
    \E j \in 1..Len(enc) :
        /\ DecryptOf(j, {})
        /\ last.password # enc[j].password
        /\ IsDecryptionError(last.res)

\* C3: decrypting with the right password after exactly one of ciphertext,
\* iv and salt was changed to a different text fails with DecryptionError;
\* no plaintext is returned.
C3_TamperDetection ==
    \A j \in 1..Len(enc) :
        \A f \in {"encryptedData", "iv", "salt"} :
            (DecryptOf(j, {f}) /\ last.password = enc[j].password)
                => IsDecryptionError(last.res)

\* the iv of a result replaced by a well-formed iv that differs in one bit
C3_Witness ==
    \E j \in 1..Len(enc) :
        /\ DecryptOf(j, {"iv"})
        /\ last.password = enc[j].password
        /\ last.iv = Base64Encode(FlipBit(Base64Decode(enc[j].result.iv), 1))
        /\ IsDecryptionError(last.res)

-----------------------------------------------------------------------------
(* Properties of the store, checked under Spec *)

StoreOps == {"setItem", "getItem", "removeItem", "clear"}

\* C4: a setItem, getItem, removeItem or clear call made on either instance
\* while the session is Uninitialized fails with InitializationError.
C4_InitializationGating ==
    [][(~IsSecureStorageInitialized /\ last'.op \in StoreOps)
          => last'.res = InitializationError]_vars

\* clear() on the session-scoped instance was refused although entries of an
\* earlier session are stored
C4_Witness ==
    /\ ~IsSecureStorageInitialized
    /\ last.op = "clear"
    /\ last.inst = "session"
    /\ last.res = InitializationError
    /\ \E k \in Keys : store["session"][Prefix \o k] # Absent

\* C5: isSecureStorageInitialized() is false before any call, stays false
\* until an initializeSecureStorage call succeeds, is true after every
\* successful initializeSecureStorage call and stays true until teardown; it
\* is true exactly when the session holds a password.
C5_InitializedQuery ==
    /\ [](last.op = "none" => ~IsSecureStorageInitialized)
    /\ [][(~IsSecureStorageInitialized
             /\ ~(last'.op = "initialize" /\ last'.res.ok))
            => ~IsSecureStorageInitialized']_vars
    /\ []((last.op = "initialize" /\ last.res.ok) => IsSecureStorageInitialized)
    /\ [][(IsSecureStorageInitialized /\ last'.op # "teardown")
            => IsSecureStorageInitialized']_vars
    /\ [](IsSecureStorageInitialized <=> "password" \in DOMAIN session)
    /\ [](last.op = "isInitialized"
            => last.res = Ok("password" \in DOMAIN session))

\* the query answered true in an initialized session
C5_Witness ==
    /\ last.op = "isInitialized"
    /\ last.res = Ok(TRUE)
    /\ "password" \in DOMAIN session

\* C6: while the session is Initialized with the password of the last
\* setItem(k, v) on an entry that was not removed or cleared since, getItem(k)
\* returns the serialized text of the most recent v, and parsing that text
\* gives v back.
C6_StoreRoundTrip ==
    \A i \in Instances, k \in Keys :
        (/\ written[i][k] # NotWritten
         /\ IsSecureStorageInitialized
         /\ session.password = written[i][k].password)
        => /\ GetItemResult(i, k) = Ok(JsonStringify(written[i][k].value))
           /\ GetItemResult(i, k).ok
           /\ JsonParse(GetItemResult(i, k).value) = written[i][k].value

\* getItem returned the second of two values set under one key
C6_Witness ==
    /\ last.op = "getItem"
    /\ written[last.inst][last.key] # NotWritten
    /\ written[last.inst][last.key].writes = 2
    /\ written[last.inst][last.key].value = JsString("hi")
    /\ last.res = Ok("\"hi\"")

\* what clear() of instance i has done to the media, and what getItem returns
\* after it
ClearEffect(i) ==
    /\ \A rk \in RawKeys :
          store'[i][rk] = IF StartsWith(rk, "bvault_enc_") THEN Absent ELSE store[i][rk]
    /\ \A j \in Instances \ {i} : store'[j] = store[j]
    /\ \A k \in Keys : GetItemResult(i, k)' = OkNull

\* C7 as stated: every clear() call deletes the entries under the prefix,
\* keeps the others, and getItem returns absent for every key afterwards.
C7_Original ==
    [][\A i \in Instances :
          (last'.op = "clear" /\ last'.inst = i) => ClearEffect(i)]_vars

\* C7, amended: a clear() call made in the Initialized state deletes every
\* entry of its medium whose key starts with the prefix, leaves every other
\* entry with its value, and getItem(k) returns absent for every key k
\* afterwards.
C7_ClearInitialized ==
    [][\A i \in Instances :
          (IsSecureStorageInitialized /\ last'.op = "clear" /\ last'.inst = i)
              => (last'.res = OkVoid /\ ClearEffect(i))]_vars

\* clear() succeeded on a medium that holds an unrelated entry, while the
\* other medium still holds an encrypted entry
C7_Witness ==
    /\ last.op = "clear"
    /\ last.res = OkVoid
    /\ store[last.inst]["a"] = PlainText("dark")
    /\ \A k \in Keys : store[last.inst][Prefix \o k] = Absent
    /\ \E j \in Instances, k \in Keys : store[j][Prefix \o k] # Absent

\* C8: a successful setItem(key, value) changes exactly the entry under
\* 'bvault_enc_' + key of its own medium; the new entry is a record with the
\* three base64 texts encryptedData, iv and salt, and neither the entry nor
\* its encryptedData is the serialized value.
C8_SetItemWritesOneEnvelope ==
    [][\A i \in Instances, k \in Keys :
          (last'.op = "setItem" /\ last'.res.ok /\ last'.inst = i /\ last'.key = k)
          => LET rk == "bvault_enc_" \o k
                 old == store[i][rk]
                 new == store'[i][rk]
                 text == JsonStringify(last'.value)
             IN  /\ \A j \in Instances, r \in RawKeys :
                       (j # i \/ r # rk) => store'[j][r] = store[j][r]
                 /\ new # old
                 /\ DOMAIN new = {"kind", "encryptedData", "iv", "salt"}
                 /\ new.kind = "envelope"
                 /\ {new.encryptedData.kind, new.iv.kind, new.salt.kind} = {"b64"}
                 /\ new # PlainText(text)
                 /\ Base64Decode(new.encryptedData) # Utf8Encode(text)]_vars

\* setItem('a', ...) succeeded next to an unrelated entry under 'a'
C8_Witness ==
    /\ last.op = "setItem"
    /\ last.res = OkVoid
    /\ last.key = "a"
    /\ store[last.inst]["a"] = PlainText("dark")
    /\ store[last.inst]["bvault_enc_a"].kind = "envelope"

\* C9: in the Initialized state, getItem(key) for a key without an entry
\* under the prefix returns null and no error.
C9_GetItemAbsent ==
    (/\ last.op = "getItem"
     /\ IsSecureStorageInitialized
     /\ store[last.inst][Prefix \o last.key] = Absent)
    => last.res = OkNull

\* getItem returned null for a key whose entry was removed, while the other
\* key is stored
C9_Witness ==
    /\ last.op = "getItem"
    /\ last.res = OkNull
    /\ rng > 0
    /\ store[last.inst][Prefix \o last.key] = Absent
    /\ \E k \in Keys : store[last.inst][Prefix \o k] # Absent

\* what removeItem(k) of instance i has done, and what it returned
RemoveItemEffect(i, k) ==
    /\ store'[i]["bvault_enc_" \o k] = Absent
    /\ \A j \in Instances, r \in RawKeys :
          (j # i \/ r # "bvault_enc_" \o k) => store'[j][r] = store[j][r]
    /\ GetItemResult(i, k)' = OkNull
    /\ (store[i]["bvault_enc_" \o k] = Absent => (last'.res = OkVoid /\ store' = store))

\* C10 as stated: every removeItem(key) call deletes the entry under
\* prefix + key and nothing else, getItem(key) returns absent afterwards, and
\* the call succeeds without effect when there is no entry.
C10_Original ==
    [][\A i \in Instances, k \in Keys :
          (last'.op = "removeItem" /\ last'.inst = i /\ last'.key = k)
              => RemoveItemEffect(i, k)]_vars

\* C10, amended: a removeItem(key) call made in the Initialized state
\* succeeds, deletes the entry under prefix + key and nothing else, getItem(key)
\* returns absent afterwards, and storage is unchanged when there was no entry.
C10_RemoveItemInitialized ==
    [][\A i \in Instances, k \in Keys :
          (/\ IsSecureStorageInitialized
           /\ last'.op = "removeItem" /\ last'.inst = i /\ last'.key = k)
              => (last'.res = OkVoid /\ RemoveItemEffect(i, k))]_vars

\* removeItem succeeded on the session-scoped instance and left the other
\* entries of both media in place
C10_Witness ==
    /\ last.op = "removeItem"
    /\ last.res = OkVoid
    /\ last.inst = "session"
    /\ store["session"][Prefix \o last.key] = Absent
    /\ store["local"][Prefix \o last.key] # Absent
    /\ store["session"]["a"] = PlainText("dark")

-----------------------------------------------------------------------------
(* Properties of all encrypt calls, checked under SpecEncrypts *)

\* where results of encrypt calls are held: by the caller, or as an entry
\* of a medium
Holders ==
    {[inst |-> i, key |-> k] : i \in Instances, k \in Keys}
    \cup {[call |-> j] : j \in 1..Len(enc)}

ResultAt(h) ==
    IF "call" \in DOMAIN h
    THEN enc[h.call].result
    ELSE ParseEnvelope(store[h.inst][Prefix \o h.key])

AllHeld ==
    {h \in Holders :
        "call" \in DOMAIN h \/ store[h.inst][Prefix \o h.key] # Absent}

\* the (derived key, nonce) pair a result was sealed under
KeyNoncePair(r) ==
    LET ct == Base64Decode(r.encryptedData) IN <<ct.key, ct.nonce>>

\* r was made from outputs of the random source that had not been produced
\* when n outputs were consumed, a different one for the salt and the iv
FreshlyDrawn(r, n) ==
    LET salt == Base64Decode(r.salt)
        iv == Base64Decode(r.iv)
    IN  /\ salt.kind = "random" /\ iv.kind = "random"
        /\ salt.id > n /\ iv.id > n /\ salt.id # iv.id
        /\ Base64Decode(r.encryptedData).key.salt = salt
        /\ Base64Decode(r.encryptedData).nonce = iv

\* the random outputs r was made from are consumed when n outputs are
Consumed(r, n) ==
    Base64Decode(r.salt).id <= n /\ Base64Decode(r.iv).id <= n

\* C11: every encrypt call, direct or through setItem, draws a salt and a
\* nonce that the random source had not produced before and consumes them;
\* any two results that are held differ in salt, nonce, ciphertext and in
\* their (derived key, nonce) pair, whatever their data and password.
C11_FreshSaltAndNonce ==
    /\ [][/\ (last'.op = "encrypt" /\ enc' # enc)
              => /\ FreshlyDrawn(enc'[Len(enc')].result, rng)
                 /\ Consumed(enc'[Len(enc')].result, rng')
           /\ \A i \in Instances, k \in Keys :
                (/\ last'.op = "setItem" /\ last'.res.ok
                 /\ last'.inst = i /\ last'.key = k)
                => /\ FreshlyDrawn(ParseEnvelope(store'[i][Prefix \o k]), rng)
                   /\ Consumed(ParseEnvelope(store'[i][Prefix \o k]), rng')]_vars
    /\ [](\A g \in AllHeld, h \in AllHeld :
            g # h => /\ ResultAt(g).salt # ResultAt(h).salt
                     /\ ResultAt(g).iv # ResultAt(h).iv
                     /\ ResultAt(g).encryptedData # ResultAt(h).encryptedData
                     /\ KeyNoncePair(ResultAt(g)) # KeyNoncePair(ResultAt(h)))

\* two direct encrypt calls with the same data and password
C11_Witness ==
    /\ Len(enc) = 2
    /\ enc[1].data = enc[2].data
    /\ enc[1].password = enc[2].password
    /\ enc[1].result.salt # enc[2].result.salt
    /\ enc[1].result.iv # enc[2].result.iv
    /\ enc[1].result.encryptedData # enc[2].result.encryptedData

-----------------------------------------------------------------------------
(* What a failed decrypt tells its caller, checked under SpecCrypto *)

\* C12: when decrypt fails on the texts of a result of which one was altered,
\* called with the right password, it reports the very error that it
\* reports for the unaltered texts and a wrong password: the same kind and
\* the same content.
C12_UndifferentiatedFailure ==
    \A j \in 1..Len(enc) :
        \A f \in {"encryptedData", "iv", "salt"} :
            (/\ DecryptOf(j, {f})
             /\ last.password = enc[j].password
             /\ ~last.res.ok)
            => \A w \in Passwords \ {enc[j].password} :
                  last.res = Decrypt(enc[j].result.encryptedData, w,
                                     enc[j].result.iv, enc[j].result.salt)

-----------------------------------------------------------------------------
(* More properties of the store, checked under Spec *)

\* C13: initializeSecureStorage(W) called while the session is Initialized
\* with W succeeds and leaves the session Initialized with W and both media
\* unchanged; getItem returns for every key what it returned before, and for
\* every entry written under W its value.
C13_InitializeIdempotent ==
    [][(/\ IsSecureStorageInitialized
        /\ last'.op = "initialize"
        /\ last'.password = session.password)
       => /\ last'.res = OkVoid
          /\ session' = Initialized(session.password)
          /\ store' = store
          /\ \A i \in Instances, k \in Keys :
                /\ GetItemResult(i, k)' = GetItemResult(i, k)
                /\ (written[i][k] # NotWritten
                      /\ written[i][k].password = session.password)
                    => GetItemResult(i, k)'
                         = Ok(JsonStringify(written[i][k].value))]_vars

\* a second initialize with the session password, with an entry stored
\* under that password
C13_Witness ==
    /\ last.op = "initialize"
    /\ last.again
    /\ last.res = OkVoid
    /\ last.password = session.password
    /\ \E i \in Instances, k \in Keys :
          /\ written[i][k] # NotWritten
          /\ written[i][k].password = session.password
          /\ GetItemResult(i, k) = Ok(JsonStringify(written[i][k].value))

-----------------------------------------------------------------------------
(* Reading entries that do not decrypt, checked under SpecTamper *)

\* the entry of key k of instance i is present and either was changed after
\* setItem wrote it or was written under another password than the session's
Undecryptable(i, k) ==
    /\ IsSecureStorageInitialized
    /\ store[i][Prefix \o k] # Absent
    /\ \/ ~AsWritten(store[i][Prefix \o k])
       \/ written[i][k].password # session.password

\* C14: in the Initialized state, getItem(key) on a present entry that was
\* tampered with or written under another password fails with
\* DecryptionError; it returns neither null nor a text.
C14_GetItemPropagatesDecryptionError ==
    /\ \A i \in Instances, k \in Keys :
          Undecryptable(i, k) => IsDecryptionError(GetItemResult(i, k))
    /\ (last.op = "getItem" /\ Undecryptable(last.inst, last.key))
          => (IsDecryptionError(last.res) /\ last.res # OkNull)

\* getItem failed on an entry with a flipped bit in its ciphertext, read
\* under the password it was written with
C14_Witness ==
    /\ last.op = "getItem"
    /\ IsDecryptionError(last.res)
    /\ Undecryptable(last.inst, last.key)
    /\ written[last.inst][last.key].password = session.password
    /\ Base64Decode(store[last.inst][Prefix \o last.key].encryptedData).kind
          = "flipped"

-----------------------------------------------------------------------------
(* The lifecycle of the session, checked under Spec *)

SessionStates == {Uninitialized} \cup {Initialized(w) : w \in Passwords}

LifecycleStep ==
    /\ (~session.initialized /\ session'.initialized)
          => (last'.op = "initialize" /\ last'.res = OkVoid)
    /\ (session.initialized /\ ~session'.initialized)
          => (last'.op = "teardown")
    /\ (last'.op = "teardown") => (session' = Uninitialized)
    /\ (last'.op \in StoreOps) => (session' = session)
    /\ (last'.op \in StoreOps /\ session = Uninitialized)
          => (last'.res = InitializationError)

\* C15: the session is always Uninitialized or Initialized; it becomes
\* Initialized only by a successful initialize and Uninitialized only by
\* teardown; no store operation changes it; and once teardown has made it
\* Uninitialized, every store operation fails with InitializationError.
C15_Lifecycle ==
    /\ [](session \in SessionStates)
    /\ [][LifecycleStep]_vars

\* a store operation failed after a session in which an entry was written
\* had been torn down
C15_Witness ==
    /\ last.op \in StoreOps
    /\ last.res = InitializationError
    /\ session = Uninitialized
    /\ \E i \in Instances, k \in Keys : written[i][k].writes > 0

-----------------------------------------------------------------------------
(* Overlapping setItem calls, checked under SpecInFlight *)

\* both calls wrote key k of instance i under the password of the session
BothWrote(i, k) ==
    /\ Finished = Calls
    /\ \A c \in Calls :
          /\ pending[c].inst = i
          /\ pending[c].key = k
          /\ IsSecureStorageInitialized
          /\ pending[c].password = session.password

LastWriter == CHOOSE c \in Calls : pending[c].order = Cardinality(Calls)

\* C16: when two setItem calls on the same key have both completed, in
\* whatever order their steps were taken, the entry is the envelope of the
\* call that wrote last, whole, and getItem returns the value of that call.
C16_LastWriteWins ==
    \A i \in Instances, k \in Keys :
        BothWrote(i, k)
        => /\ store[i][Prefix \o k] = pending[LastWriter].envelope
           /\ GetItemResult(i, k) = Ok(JsonStringify(pending[LastWriter].value))
           /\ (last.op = "getItem" /\ last.inst = i /\ last.key = k)
                 => last.res \in {Ok(JsonStringify(pending[c].value)) : c \in Calls}

\* the two calls overlapped: the call that began first wrote last, with a
\* different value, and getItem returned its value
C16_Witness ==
    /\ \E i \in Instances, k \in Keys : BothWrote(i, k)
    /\ \E c \in Calls :
          /\ c # LastWriter
          /\ pending[c].value # pending[LastWriter].value
          /\ Base64Decode(pending[c].envelope.salt).id
                > Base64Decode(pending[LastWriter].envelope.salt).id
    /\ last.op = "getItem"
    /\ last.res = Ok(JsonStringify(pending[LastWriter].value))

-----------------------------------------------------------------------------
(* The query and the two instances, checked under Spec *)

\* C17: isSecureStorageInitialized() returns a boolean in every state,
\* without failing, and changes neither the session nor any entry of the
\* two media.
C17_PureQuery ==
    [][last'.op = "isInitialized"
         => /\ last'.res \in {Ok(TRUE), Ok(FALSE)}
            /\ session' = session
            /\ store' = store]_vars

\* the query answered false after teardown, with an entry still stored
C17_Witness ==
    /\ last.op = "isInitialized"
    /\ last.res = Ok(FALSE)
    /\ session = Uninitialized
    /\ \E i \in Instances, k \in Keys : store[i][Prefix \o k] # Absent

\* a step of setItem or getItem of instance i leaves the other medium as it is
OwnMediumStep ==
    \A i \in Instances :
        (last'.op \in {"setItem", "getItem"} /\ last'.inst = i)
        => \A j \in Instances \ {i} : store'[j] = store[j]

-----------------------------------------------------------------------------
(* setItem calls that fail or are abandoned, checked under SpecInFlight *)

\* a step in which a setItem call fails or is abandoned
FailingSetItem ==
    \/ last'.op = "setItem" /\ ~last'.res.ok
    \/ last'.op = "setItemInterrupted"
    \/ \E c \in Calls :
          /\ pending'[c] # pending[c]
          /\ pending'[c].pc \in {"failed", "interrupted"}

\* every entry of the store's namespace is the whole envelope of one call
\* that has done its write
WholeEnvelopes ==
    \A i \in Instances, k \in Keys :
        store[i][Prefix \o k] # Absent
        => \E c \in Finished :
              /\ pending[c].inst = i
              /\ pending[c].key = k
              /\ store[i][Prefix \o k] = pending[c].envelope

\* C19: a setItem that fails with InitializationError or EncryptionError,
\* or that is abandoned before its write, leaves both media and the session
\* as they were; and no entry is ever part of an envelope.
C19_FailedSetItemChangesNothing ==
    /\ [][FailingSetItem => (store' = store /\ session' = session)]_vars
    /\ []WholeEnvelopes

\* a call was abandoned before its write, and the entry of its key is still
\* the envelope of the other call
C19_Witness ==
    \E c \in Calls, d \in Calls :
        /\ pending[c].pc = "interrupted"
        /\ pending[d].pc = "done"
        /\ pending[d].inst = pending[c].inst
        /\ pending[d].key = pending[c].key
        /\ pending[d].value # pending[c].value
        /\ store[pending[c].inst][Prefix \o pending[c].key] = pending[d].envelope
        /\ last.op = "setItemInterrupted"

-----------------------------------------------------------------------------
(* Entries and the password they were written under, checked under Spec *)

\* C20: an entry written by setItem under one password is read with
\* DecryptionError in a session initialized with another password; and
\* getItem, whether it returns a text, null or fails, leaves every entry of
\* both media as it was.
C20_PasswordBoundReadOnly ==
    /\ []((/\ last.op = "getItem"
           /\ IsSecureStorageInitialized
           /\ store[last.inst][Prefix \o last.key] # Absent
           /\ written[last.inst][last.key].password # session.password)
            => IsDecryptionError(last.res))
    /\ [][last'.op = "getItem" => store' = store]_vars

\* getItem failed on an entry written under the other password, and the
\* entry is still there
C20_Witness ==
    /\ last.op = "getItem"
    /\ IsDecryptionError(last.res)
    /\ IsSecureStorageInitialized
    /\ written[last.inst][last.key].writes > 0
    /\ written[last.inst][last.key].password # session.password
    /\ store[last.inst][Prefix \o last.key] # Absent
    /\ Decrypt(store[last.inst][Prefix \o last.key].encryptedData,
               written[last.inst][last.key].password,
               store[last.inst][Prefix \o last.key].iv,
               store[last.inst][Prefix \o last.key].salt)
          = Ok(JsonStringify(written[last.inst][last.key].value))

====
